---- MODULE Spec2Model ----
(***************************************************************************)
(* The TopP and TailFree samplers of llm-samplers                           *)
(* (src/src/samplers/top_p.rs, src/src/samplers/tail_free.rs) applied, in  *)
(* any order and with any parameters, to one sorted Logits buffer.         *)
(*                                                                         *)
(* Numbers.  The scalar type L is modelled by exact rationals <<n, d>> in  *)
(* lowest terms with d > 0, plus the value NaN that the division 0/0       *)
(* produces.  Rounding of f32 is not modelled.  A logit is stored as an    *)
(* index into ExpTable: the logit with index k is ln(ExpTable[k]), so that *)
(* its exponential is an exact integer and every softmax probability an    *)
(* exact rational.                                                         *)
(***************************************************************************)
EXTENDS Integers, Sequences, FiniteSets

\* Longest buffer the producer hands to the samplers.
MaxLen == 4

\* exp(logit) for the logits of the grid, ascending.
ExpTable == <<1, 2, 3, 6, 10>>

LogitGrid == DOMAIN ExpTable

Exp(l) == ExpTable[l]

---------------------------------------------------------------------------
(* The scalar type L *)

NaN == <<0, 0>>

IsNaN(a) == a[2] = 0

AbsInt(n) == IF n < 0 THEN -n ELSE n

RECURSIVE GCD(_, _)
GCD(a, b) == IF b = 0 THEN a ELSE GCD(b, a % b)

\* The rational n/d (d > 0) in lowest terms.
Norm(n, d) == LET g == GCD(AbsInt(n), d) IN <<n \div g, d \div g>>

Zero == <<0, 1>>

One == <<1, 1>>

RAdd(a, b) == IF IsNaN(a) \/ IsNaN(b) THEN NaN
              ELSE Norm(a[1] * b[2] + b[1] * a[2], a[2] * b[2])

RSub(a, b) == IF IsNaN(a) \/ IsNaN(b) THEN NaN
              ELSE Norm(a[1] * b[2] - b[1] * a[2], a[2] * b[2])

RAbs(a) == IF IsNaN(a) THEN NaN ELSE <<AbsInt(a[1]), a[2]>>

\* a / b for a >= 0 and b >= 0.  The only division by zero the samplers can
\* perform is 0/0 (ssum = 0 forces every sprob = 0), which is NaN.
RDiv(a, b) == IF IsNaN(a) \/ IsNaN(b) \/ b[1] = 0 THEN NaN
              ELSE Norm(a[1] * b[2], a[2] * b[1])

\* Every comparison with NaN is false.
RGe(a, b) == ~IsNaN(a) /\ ~IsNaN(b) /\ a[1] * b[2] >= b[1] * a[2]

RGt(a, b) == ~IsNaN(a) /\ ~IsNaN(b) /\ a[1] * b[2] > b[1] * a[2]

---------------------------------------------------------------------------
(* Parameters the callers choose *)

\* Values of TopP's p: inside (0, 1] and above it.
PGrid == {<<1, 2>>, <<4, 5>>, <<1, 1>>, <<11, 10>>}

\* Values of TailFree's z: inside [0, 1) and at or above 1.
ZGrid == {<<0, 1>>, <<1, 2>>, <<1, 1>>, <<3, 2>>}

\* min_keep from 0 to more than any buffer holds.
MinKeeps == 0 .. (MaxLen + 1)

---------------------------------------------------------------------------
(* Logits: the buffer *)

VARIABLES logits, input, last

vars == <<logits, input, last>>

\* A Logit as the producer makes it: prob is 0 until a softmax computes it.
NewLogit(token_id, logit) == [token_id |-> token_id, logit |-> logit, prob |-> Zero]

\* Sorted by logit, highest first.
IsSorted(ls) == \A i \in 1 .. (Len(ls) - 1) : ls[i] >= ls[i + 1]

SortedLogitSeqs == UNION {{ls \in [1 .. n -> LogitGrid] : IsSorted(ls)} : n \in 0 .. MaxLen}

NewLogits(ls) == [entries |-> [i \in 1 .. Len(ls) |-> NewLogit(i, ls[i])],
                  softmax |-> FALSE]

RECURSIVE SumExp(_, _)
SumExp(entries, n) == IF n = 0 THEN 0 ELSE SumExp(entries, n - 1) + Exp(entries[n].logit)

\* prob of every entry := exp(logit) / sum.
Normalized(entries, sum) ==
    [i \in 1 .. Len(entries) |-> [entries[i] EXCEPT !.prob = Norm(Exp(entries[i].logit), sum)]]

\* The softmax: sum is the sum of exp(logit) over the entries.
SoftmaxProbs(entries) == Normalized(entries, SumExp(entries, Len(entries)))

\* ensure_softmax / softmax: nothing when the flag is set, an error on an
\* empty buffer, else recompute and set the flag.
EnsureSoftmax(l) ==
    IF l.softmax THEN [err |-> FALSE, logits |-> l]
    ELSE IF Len(l.entries) = 0 THEN [err |-> TRUE, logits |-> l]
    ELSE [err |-> FALSE, logits |-> [entries |-> SoftmaxProbs(l.entries), softmax |-> TRUE]]

\* truncate(n): the first n entries; the flag is not touched.
Truncate(l, n) ==
    IF n >= Len(l.entries) THEN l
    ELSE [l EXCEPT !.entries = SubSeq(l.entries, 1, n)]

SetSoftmax(l, b) == [l EXCEPT !.softmax = b]

---------------------------------------------------------------------------
(* SampleTopP::sample *)

\* Variants of the test: min_keep ignored; p to be exceeded, not reached.
TopPBreakNoMinKeep(cum_sum, p, idx, min_keep) == RGe(cum_sum, p)

TopPBreakStrict(cum_sum, p, idx, min_keep) == RGt(cum_sum, p) /\ idx + 1 >= min_keep

\* The test that ends the walk at entry idx (0-based).
TopPBreak(cum_sum, p, idx, min_keep) == RGe(cum_sum, p) /\ idx + 1 >= min_keep

\* try_fold over the entries from entry idx on: Break(idx + 1) at the first
\* entry that passes the test, Continue(last_idx) to the end otherwise.
RECURSIVE TopPFold(_, _, _, _, _, _)
TopPFold(entries, p, min_keep, idx, cum_sum, last_idx) ==
    IF idx = Len(entries) THEN last_idx
    ELSE LET sum == RAdd(cum_sum, entries[idx + 1].prob) IN
         IF TopPBreak(sum, p, idx, min_keep) THEN idx + 1
         ELSE TopPFold(entries, p, min_keep, idx + 1, sum, last_idx)

TopPLastIdx(entries, p, min_keep) ==
    TopPFold(entries, p, min_keep, 0, Zero, Len(entries))

\* Variant of the truncation: the head of the buffer goes, not its tail.
TopPTruncateFront(l, last_idx) ==
    IF last_idx # Len(l.entries)
    THEN SetSoftmax([l EXCEPT !.entries = SubSeq(l.entries, Len(l.entries) - last_idx + 1,
                                                 Len(l.entries))], FALSE)
    ELSE l

\* Truncate, and mark the probabilities stale, when entries go.
TopPTruncate(l, last_idx) ==
    IF last_idx # Len(l.entries) THEN SetSoftmax(Truncate(l, last_idx), FALSE)
    ELSE l

\* The sampler after ensure_softmax returned sm.
TopPAfterSoftmax(sm, p, min_keep) ==
    IF sm.err THEN [res |-> "InternalError", logits |-> sm.logits]
    ELSE [res |-> "Ok",
          logits |-> TopPTruncate(sm.logits, TopPLastIdx(sm.logits.entries, p, min_keep))]

TopPSampleResult(l, p, min_keep) == TopPAfterSoftmax(EnsureSoftmax(l), p, min_keep)

SampleTopP ==
    \E p \in PGrid, min_keep \in MinKeeps :
        \E r \in {TopPSampleResult(logits, p, min_keep)} :
        /\ logits' = r.logits
        /\ input' = logits
        /\ last' = [sampler |-> "TopP", param |-> p, min_keep |-> min_keep, res |-> r.res]

---------------------------------------------------------------------------
(* SampleTailFree::sample *)

\* Variant of the early return: z = 1 is not a no-op.
TailFreeNoOpStrict(l, z) == RGt(z, One) \/ Len(l.entries) < 2

\* The early return.
TailFreeNoOp(l, z) == RGe(z, One) \/ Len(l.entries) < 2

\* fderivs: prob[i] - prob[i + 1] for all entries but the last.
FDerivs(entries) ==
    [i \in 1 .. (Len(entries) - 1) |-> RSub(entries[i].prob, entries[i + 1].prob)]

\* The while loop, at item k of fderivs: next() ends the loop when fderivs is
\* exhausted, peek() of an exhausted fderivs is the internal error, and the
\* loop breaks once want_sderivs items are pushed.
RECURSIVE SDerivLoop(_, _, _, _, _)
SDerivLoop(fderivs, k, sderivs, ssum, want_sderivs) ==
    IF k > Len(fderivs) THEN [err |-> FALSE, sderivs |-> sderivs, ssum |-> ssum]
    ELSE IF k + 1 > Len(fderivs) THEN [err |-> TRUE, sderivs |-> sderivs, ssum |-> ssum]
    ELSE LET sprob == RAbs(RSub(fderivs[k], fderivs[k + 1]))
             pushed == Append(sderivs, sprob)
             sum == RAdd(ssum, sprob)
         IN  IF Len(pushed) = want_sderivs
             THEN [err |-> FALSE, sderivs |-> pushed, ssum |-> sum]
             ELSE SDerivLoop(fderivs, k + 1, pushed, sum, want_sderivs)

\* Every second derivative divided by their sum.
Normalize(sderivs, ssum) == [i \in 1 .. Len(sderivs) |-> RDiv(sderivs[i], ssum)]

\* Variant of the test: z to be reached, not exceeded.
TailFreeBreakGe(cum_sum, z, idx, min_keep) == RGe(cum_sum, z) /\ idx >= min_keep

\* The test that ends the walk at item idx (0-based).
TailFreeBreak(cum_sum, z, idx, min_keep) == RGt(cum_sum, z) /\ idx >= min_keep

\* try_fold over the normalized sderivs from item idx on: Break(idx) at the
\* first item that passes the test, Continue(last_idx) to the end otherwise.
RECURSIVE TailFreeFold(_, _, _, _, _, _)
TailFreeFold(sderivs, z, min_keep, idx, cum_sum, last_idx) ==
    IF idx = Len(sderivs) THEN last_idx
    ELSE LET sum == RAdd(cum_sum, sderivs[idx + 1]) IN
         IF TailFreeBreak(sum, z, idx, min_keep) THEN idx
         ELSE TailFreeFold(sderivs, z, min_keep, idx + 1, sum, last_idx)

TailFreeLastIdx(sderivs, z, min_keep, len) ==
    TailFreeFold(sderivs, z, min_keep, 0, Zero, len)

\* The sampler after the while loop returned loop, on the buffer l.
TailFreeAfterLoop(l, loop, z, min_keep) ==
    IF loop.err THEN [res |-> "InternalError", logits |-> l]
    ELSE [res |-> "Ok",
          logits |-> Truncate(l, TailFreeLastIdx(Normalize(loop.sderivs, loop.ssum),
                                                 z, min_keep, Len(l.entries)))]

\* The sampler after softmax returned sm.
TailFreeAfterSoftmax(sm, z, min_keep) ==
    IF sm.err THEN [res |-> "InternalError", logits |-> sm.logits]
    ELSE TailFreeAfterLoop(sm.logits,
                           SDerivLoop(FDerivs(sm.logits.entries), 1, <<>>, Zero,
                                      Len(sm.logits.entries) - 2),
                           z, min_keep)

TailFreeSampleResult(l, z, min_keep) ==
    IF TailFreeNoOp(l, z) THEN [res |-> "Ok", logits |-> l]
    ELSE TailFreeAfterSoftmax(EnsureSoftmax(l), z, min_keep)

SampleTailFree ==
    \E z \in ZGrid, min_keep \in MinKeeps :
        \E r \in {TailFreeSampleResult(logits, z, min_keep)} :
        /\ logits' = r.logits
        /\ input' = logits
        /\ last' = [sampler |-> "TailFree", param |-> z, min_keep |-> min_keep, res |-> r.res]

---------------------------------------------------------------------------
(* The pipeline: a producer's sorted buffer, then sample calls in any order *)

Init ==
    /\ \E ls \in SortedLogitSeqs : logits = NewLogits(ls)
    /\ input = logits
    /\ last = [sampler |-> "none", param |-> Zero, min_keep |-> 0, res |-> "Ok"]

Next == SampleTopP \/ SampleTailFree

Spec == Init /\ [][Next]_vars

---------------------------------------------------------------------------
(* What the properties speak of: the last call, its input and its output *)

InLen == Len(input.entries)

OutLen == Len(logits.entries)

Called(sampler) == last.sampler = sampler

ReturnedOk == last.sampler # "none" /\ last.res = "Ok"

\* The probabilities the last call walked: those of its input once current.
WalkedProbs == [i \in 1 .. InLen |-> EnsureSoftmax(input).logits.entries[i].prob]

\* Same token ids and logits, entry by entry, over the first n entries.
SameEntries(a, b, n) ==
    \A i \in 1 .. n : a[i].token_id = b[i].token_id /\ a[i].logit = b[i].logit

RECURSIVE SumTo(_, _)
SumTo(probs, n) == IF n = 0 THEN Zero ELSE RAdd(SumTo(probs, n - 1), probs[n])

ProbsOf(entries) == [i \in 1 .. Len(entries) |-> entries[i].prob]

MinOf(S) == CHOOSE x \in S : \A y \in S : x <= y

MinInt(a, b) == IF a <= b THEN a ELSE b

\* 0-based first and second differences of a probability sequence.
D(probs, i) == RSub(probs[i + 1], probs[i + 2])

S2(probs, i) == RAbs(RSub(D(probs, i), D(probs, i + 1)))

S2Seq(probs) == [i \in 1 .. (Len(probs) - 2) |-> S2(probs, i - 1)]

SSum(probs) == SumTo(S2Seq(probs), Len(probs) - 2)

\* w[0] + ... + w[idx] with w[i] = s[i] / S.
WSum(probs, idx) ==
    SumTo([i \in 1 .. (Len(probs) - 2) |-> RDiv(S2(probs, i - 1), SSum(probs))], idx + 1)

\* An exact arithmetic progression: every second difference is zero.
IsArithmetic(probs) == \A i \in 0 .. (Len(probs) - 3) : D(probs, i) = D(probs, i + 1)

---------------------------------------------------------------------------
(* Properties *)

\* C1: idempotence.  When a sample call returned Ok, a second call of the
\* same sampler with the same parameters on its output returns Ok and
\* removes no further entry.
C1_Idempotent ==
    [][(/\ ReturnedOk
        /\ last'.sampler = last.sampler
        /\ last'.param = last.param
        /\ last'.min_keep = last.min_keep)
       => (last'.res = "Ok" /\ Len(logits'.entries) = Len(logits.entries))]_vars

\* C2: min_keep floor.  Whenever either sampler returns Ok, the output holds
\* at least min(min_keep, input length) entries.
C2_MinKeepFloor == ReturnedOk => OutLen >= MinInt(last.min_keep, InLen)

\* TopP stopped by min_keep alone: probabilities 1/2, 3/10, 3/20, 1/20 with
\* p = 1/2 and min_keep = 3 keep 3 of 4 entries.
C2_Witness ==
    /\ Called("TopP") /\ ReturnedOk
    /\ WalkedProbs = <<(<<1, 2>>), (<<3, 10>>), (<<3, 20>>), (<<1, 20>>)>>
    /\ last.param = <<1, 2>> /\ last.min_keep = 3
    /\ OutLen = 3

\* C3: TailFree on fewer than 3 entries returns Ok with the output identical
\* to the input, for every z and min_keep.
C3_TailFreeDegenerate ==
    (Called("TailFree") /\ InLen < 3)
        => /\ last.res = "Ok"
           /\ OutLen = InLen
           /\ SameEntries(logits.entries, input.entries, InLen)

\* C4: TailFree with z < 1 on at least 3 entries whose probabilities are an
\* exact arithmetic progression returns an internal error.
C4_TailFreeZeroVariance ==
    (/\ Called("TailFree") /\ InLen >= 3
     /\ ~RGe(last.param, One)
     /\ IsArithmetic(WalkedProbs))
        => last.res = "InternalError"

\* C5: prefix preservation.  Whenever either sampler returns Ok the output is
\* a prefix of the input: no longer than it, with the same token id and logit
\* at every position.
C5_PrefixPreserved ==
    ReturnedOk => /\ OutLen <= InLen
                  /\ SameEntries(logits.entries, input.entries, OutLen)

\* A call that removed a proper, non-empty suffix of distinct logits.
C5_Witness ==
    /\ ReturnedOk /\ Called("TailFree")
    /\ 0 < OutLen /\ OutLen < InLen
    /\ input.entries[1].logit # input.entries[InLen].logit

\* C6: TopP kept-count.  On a non-empty input TopP keeps i + 1 entries, i the
\* smallest 0-based index with prob[0] + ... + prob[i] >= p and
\* i + 1 >= min_keep, and everything when there is no such index; the
\* probabilities 1/2, 3/10, 3/20, 1/20 with p = 4/5 and min_keep = 1 keep 2.
C6_TopPKeptCount ==
    (Called("TopP") /\ InLen > 0)
        => LET stops == {i \in 0 .. (InLen - 1) :
                            /\ RGe(SumTo(WalkedProbs, i + 1), last.param)
                            /\ i + 1 >= last.min_keep}
           IN  /\ OutLen = IF stops = {} THEN InLen ELSE MinOf(stops) + 1
               /\ (/\ WalkedProbs = <<(<<1, 2>>), (<<3, 10>>), (<<3, 20>>), (<<1, 20>>)>>
                   /\ last.param = <<4, 5>>
                   /\ last.min_keep = 1) => OutLen = 2

C6_Witness ==
    /\ Called("TopP") /\ ReturnedOk
    /\ WalkedProbs = <<(<<1, 2>>), (<<3, 10>>), (<<3, 20>>), (<<1, 20>>)>>
    /\ last.param = <<4, 5>> /\ last.min_keep = 1
    /\ OutLen = 2

\* C7: TailFree with z >= 1 returns Ok and leaves the buffer as it was:
\* entries, probabilities and softmax flag.
C7_TailFreeNoOpOnZ ==
    (Called("TailFree") /\ RGe(last.param, One))
        => (last.res = "Ok" /\ logits = input)

\* z = 1 on a buffer of at least 3 entries whose probabilities are not current.
C7_Witness ==
    /\ Called("TailFree") /\ last.param = One /\ last.res = "Ok"
    /\ InLen >= 3 /\ ~input.softmax
    /\ logits = input

\* C8: softmax cache validity.  Whenever the softmax flag is set, the prob
\* fields are the softmax of the logits over the entries now in the buffer
\* (they sum to 1), and a call that removed entries leaves the flag clear.
C8_SoftmaxCacheValid ==
    /\ logits.softmax => /\ logits.entries = SoftmaxProbs(logits.entries)
                         /\ SumTo(ProbsOf(logits.entries), OutLen) = One
    /\ (last.sampler # "none" /\ OutLen < InLen) => ~logits.softmax

\* C9: TailFree kept-count.  With z < 1, at least 3 entries and S # 0,
\* TailFree keeps idx entries, idx the smallest 0-based index with
\* w[0] + ... + w[idx] > z and idx >= min_keep, and everything when there is
\* no such index.
C9_TailFreeKeptCount ==
    (/\ Called("TailFree") /\ InLen >= 3
     /\ ~RGe(last.param, One)
     /\ SSum(WalkedProbs) # Zero)
        => LET stops == {idx \in 0 .. (InLen - 3) :
                            /\ RGt(WSum(WalkedProbs, idx), last.param)
                            /\ idx >= last.min_keep}
           IN  /\ last.res = "Ok"
               /\ OutLen = IF stops = {} THEN InLen ELSE MinOf(stops)

\* The walk passed an item whose running sum equals z before it stopped.
C9_Witness ==
    /\ Called("TailFree") /\ last.res = "Ok" /\ InLen >= 3
    /\ ~RGe(last.param, One)
    /\ SSum(WalkedProbs) # Zero
    /\ WSum(WalkedProbs, 0) = last.param
    /\ last.min_keep = 0
    /\ 0 < OutLen /\ OutLen < InLen

\* C10: TopP softmax flag.  After TopP returns Ok on a non-empty buffer the
\* flag is clear exactly when the call removed an entry, and when it removed
\* none the flag is set and the probabilities are the softmax over the
\* entries.
C10_TopPSoftmaxFlag ==
    (Called("TopP") /\ ReturnedOk /\ InLen > 0)
        => /\ ~logits.softmax <=> OutLen < InLen
           /\ OutLen = InLen
                => /\ logits.softmax
                   /\ logits.entries = SoftmaxProbs(logits.entries)

====
